---- MODULE Spec2Model ----
(***************************************************************************)
(* Model of BotTemplateDeployer (bot_template_deployer.py): the template   *)
(* resolver, the parameter merge helper and the steps of create_app.       *)
(*                                                                         *)
(* A Python string is a sequence of pieces.  A piece is one character      *)
(* wherever the code looks at characters (names, locations, the lookup     *)
(* response), and a whole literal where the code only concatenates it      *)
(* (URL suffixes, ids).  A Python/JSON value is a tagged record.           *)
(***************************************************************************)
EXTENDS Integers, Sequences, FiniteSets, TLC

\* ---------------------------------------------------------------- bounds
MaxTail == 2
MaxItems == 3

\* ------------------------------------------------------ program constants
SiteNameMax == 40
StorageNameMax == 24
StatusOK == 200

function_template_name == "functionapp.template.json"
v3_webapp_template_name == "webapp.template.json"
v4_webapp_template_name == "webappv4.template.json"

\* ------------------------------------------------------------ characters
UpperLetters ==
  <<"A","B","C","D","E","F","G","H","I","J","K","L","M",
    "N","O","P","Q","R","S","T","U","V","W","X","Y","Z">>
LowerLetters ==
  <<"a","b","c","d","e","f","g","h","i","j","k","l","m",
    "n","o","p","q","r","s","t","u","v","w","x","y","z">>
Digits == {"0","1","2","3","4","5","6","7","8","9"}

Range(s) == {s[i] : i \in 1..Len(s)}

Min(a, b) == IF a <= b THEN a ELSE b

\* str.lower(), one character
LowerChar(c) ==
  IF \E i \in 1..Len(UpperLetters) : UpperLetters[i] = c
    THEN LowerLetters[CHOOSE i \in 1..Len(UpperLetters) : UpperLetters[i] = c]
    ELSE c

\* str.lower()
Lower(s) == [i \in 1..Len(s) |-> LowerChar(s[i])]

\* s[:n]
Prefix(s, n) == SubSeq(s, 1, Min(Len(s), n))

\* re.sub(r'[^...]', '', s): keep only the characters of the class
KeepOnly(s, class) == SelectSeq(s, LAMBDA c : c \in class)

\* str.replace(ch, '')
RemoveChar(s, ch) == SelectSeq(s, LAMBDA c : c # ch)

RECURSIVE LStrip(_, _)
LStrip(s, ch) ==
  IF s # <<>> /\ Head(s) = ch THEN LStrip(Tail(s), ch) ELSE s

RECURSIVE RStrip(_, _)
RStrip(s, ch) ==
  IF s # <<>> /\ s[Len(s)] = ch THEN RStrip(SubSeq(s, 1, Len(s) - 1), ch) ELSE s

\* str.strip(ch)
Strip(s, ch) == RStrip(LStrip(s, ch), ch)

RECURSIVE Repeat(_, _)
Repeat(c, n) == IF n <= 0 THEN <<>> ELSE <<c>> \o Repeat(c, n - 1)

\* --------------------------------------------------- Python / JSON values
PyNone == [t |-> "null"]
PyBool(b) == [t |-> "bool", b |-> b]
PyNum(n) == [t |-> "num", n |-> n]
PyStr(s) == [t |-> "str", s |-> s]
PyDict(f) == [t |-> "obj", o |-> f]

EmptyDict == [k \in {} |-> PyNone]

\* a key or an opaque literal written as one piece
K(lit) == <<lit>>

\* bool(v)
Truthy(v) ==
  CASE v.t = "null" -> FALSE
    [] v.t = "bool" -> v.b
    [] v.t = "num" -> v.n # 0
    [] v.t = "str" -> v.s # <<>>
    [] v.t = "obj" -> DOMAIN v.o # {}

\* dict.update(): the later value wins on a key collision
Update(d, e) == [k \in DOMAIN d \cup DOMAIN e |-> IF k \in DOMAIN e THEN e[k] ELSE d[k]]

\* ------------------------------------------------------------------ JSON
\* JSON text is a sequence of tokens: the four structural tokens, a scalar
\* (string, number, true/false, null) carrying its value, or a bare word
\* that is no JSON at all.
LBrace == [tok |-> "{"]
RBrace == [tok |-> "}"]
Colon == [tok |-> ":"]
Comma == [tok |-> ","]
Atom(v) == [tok |-> "atom", v |-> v]
Word == [tok |-> "word"]

\* the order in which json.dumps writes the keys the model uses (a dict keeps
\* insertion order: lines 94-127 for the deployment parameters)
KeyOrder ==
  << K("location"), K("kind"), K("sku"), K("siteName"), K("appId"), K("appSecret"),
     K("serverFarmId"), K("zipUrl"), K("botEnv"), K("createServerFarm"),
     K("serverFarmLocation"), K("azureWebJobsBotFrameworkDirectLineSecret"),
     K("botId"), K("description"), K("createNewStorage"),
     K("storageAccountResourceId"), K("storageAccountName"), K("useAppInsights"),
     K("appInsightsLocation"), K("parameters"), K("value"), K("a"), K("b") >>

RECURSIVE JsonDumps(_)
RECURSIVE DumpMembers(_, _)

\* the members of dict o for the keys ks, comma separated
DumpMembers(o, ks) ==
  IF ks = <<>> THEN <<>>
  ELSE << Atom(PyStr(Head(ks))), Colon >> \o JsonDumps(o[Head(ks)])
       \o (IF Tail(ks) = <<>> THEN <<>> ELSE <<Comma>> \o DumpMembers(o, Tail(ks)))

\* json.dumps
JsonDumps(v) ==
  IF v.t = "obj"
    THEN <<LBrace>> \o DumpMembers(v.o, SelectSeq(KeyOrder, LAMBDA k : k \in DOMAIN v.o))
         \o <<RBrace>>
    ELSE << Atom(v) >>

ParseFail == [ok |-> FALSE, v |-> PyNone, i |-> 0]

RECURSIVE ParseValue(_, _)
RECURSIVE ParseMembers(_, _, _)

\* after "{" or ",": string ":" value, then "," and more members, or "}"
ParseMembers(ts, i, acc) ==
  IF i + 1 > Len(ts) THEN ParseFail
  ELSE IF ~(ts[i].tok = "atom" /\ ts[i].v.t = "str" /\ ts[i + 1] = Colon) THEN ParseFail
  ELSE LET r == ParseValue(ts, i + 2) IN
       IF ~r.ok \/ r.i > Len(ts) THEN ParseFail
       ELSE LET acc2 == Update(acc, [k \in {ts[i].v.s} |-> r.v]) IN
            IF ts[r.i] = RBrace THEN [ok |-> TRUE, v |-> PyDict(acc2), i |-> r.i + 1]
            ELSE IF ts[r.i] = Comma THEN ParseMembers(ts, r.i + 1, acc2)
            ELSE ParseFail

\* one JSON value starting at token i
ParseValue(ts, i) ==
  IF i > Len(ts) THEN ParseFail
  ELSE IF ts[i].tok = "atom" THEN [ok |-> TRUE, v |-> ts[i].v, i |-> i + 1]
  ELSE IF ts[i] = LBrace THEN
         IF i + 1 <= Len(ts) /\ ts[i + 1] = RBrace
           THEN [ok |-> TRUE, v |-> PyDict(EmptyDict), i |-> i + 2]
           ELSE ParseMembers(ts, i + 1, EmptyDict)
  ELSE ParseFail

\* json.loads: one value and nothing after it
JsonLoads(ts) ==
  LET r == ParseValue(ts, 1) IN
  IF r.ok /\ r.i = Len(ts) + 1 THEN [ok |-> TRUE, v |-> r.v] ELSE [ok |-> FALSE, v |-> PyNone]

\* azure.cli.core.util.shell_safe_json_parse: the parsed value, or CLIError
shell_safe_json_parse(value) == JsonLoads(value)

\* ------------------------------------------------- __process_parameters
NoError == "none"

\* _try_parse_json_object: None for an unparsable string (CLIError is caught),
\* parsed.get('parameters', parsed) for a dict, and AttributeError, which is
\* not caught, for a parsed value that has no .get
try_parse_json_object(value) ==
  LET parsed == shell_safe_json_parse(value) IN
  IF ~parsed.ok THEN [err |-> NoError, v |-> PyNone]
  ELSE IF parsed.v.t # "obj" THEN [err |-> "AttributeError", v |-> PyNone]
  ELSE IF K("parameters") \in DOMAIN parsed.v.o
         THEN [err |-> NoError, v |-> parsed.v.o[K("parameters")]]
         ELSE [err |-> NoError, v |-> parsed.v]

\* if param_obj: parameters.update(param_obj)
\* a truthy number or bool is not iterable (TypeError); a non-empty string
\* iterates over single characters, which are no key/value pairs (ValueError)
UpdateWith(parameters, param_obj) ==
  IF ~Truthy(param_obj) THEN [err |-> NoError, v |-> parameters]
  ELSE IF param_obj.t = "obj" THEN [err |-> NoError, v |-> Update(parameters, param_obj.o)]
  ELSE IF param_obj.t = "str" THEN [err |-> "ValueError", v |-> parameters]
  ELSE [err |-> "TypeError", v |-> parameters]

RECURSIVE Flatten(_)
\* the items in the order the two nested loops visit them
Flatten(lists) == IF lists = <<>> THEN <<>> ELSE Head(lists) \o Flatten(Tail(lists))

RECURSIVE ProcessItems(_, _)
ProcessItems(items, parameters) ==
  IF items = <<>> THEN [err |-> NoError, v |-> parameters]
  ELSE LET param_obj == try_parse_json_object(Head(items)) IN
       IF param_obj.err # NoError THEN [err |-> param_obj.err, v |-> parameters]
       ELSE LET u == UpdateWith(parameters, param_obj.v) IN
            IF u.err # NoError THEN u ELSE ProcessItems(Tail(items), u.v)

process_parameters(parameter_lists) == ProcessItems(Flatten(parameter_lists), EmptyDict)

\* ------------------------------------------- __retrieve_bot_template_link
Quote == "\""

LanguageSuffix(language, csharp, javascript) ==
  IF language = "Csharp" THEN K(csharp)
  ELSE IF language = "Javascript" THEN K(javascript)
  ELSE <<>>

\* lines 189-200: version v3
V3LinkSwapped(cdn_link, language, kind) ==
  IF kind = "function"
    THEN [err |-> NoError,
          cdn_link |-> cdn_link \o LanguageSuffix(language,
              "csharp-abs-functions_emptybot.zip",
              "node.js-abs-functions_emptybot_funcpack.zip"),
          template_name |-> v3_webapp_template_name]
    ELSE [err |-> NoError,
          cdn_link |-> cdn_link \o LanguageSuffix(language,
              "csharp-abs-webapp_simpleechobot_precompiled.zip",
              "node.js-abs-webapp_hello-chatconnector.zip"),
          template_name |-> function_template_name]

V3Link(cdn_link, language, kind) ==
  IF kind = "function"
    THEN [err |-> NoError,
          cdn_link |-> cdn_link \o LanguageSuffix(language,
              "csharp-abs-functions_emptybot.zip",
              "node.js-abs-functions_emptybot_funcpack.zip"),
          template_name |-> function_template_name]
    ELSE [err |-> NoError,
          cdn_link |-> cdn_link \o LanguageSuffix(language,
              "csharp-abs-webapp_simpleechobot_precompiled.zip",
              "node.js-abs-webapp_hello-chatconnector.zip"),
          template_name |-> v3_webapp_template_name]

\* lines 202-209: any other version
V4LinkNoFunctionCheck(cdn_link, language, kind) ==
  [err |-> NoError,
   cdn_link |-> cdn_link \o LanguageSuffix(language,
       "csharp-abs-webapp-v4_echobot_precompiled.zip",
       "node.js-abs-webapp-v4_echobot.zip"),
   template_name |-> v4_webapp_template_name]

V4Link(cdn_link, language, kind) ==
  IF kind = "function"
    THEN [err |-> "UnsupportedConfiguration", cdn_link |-> <<>>, template_name |-> ""]
    ELSE [err |-> NoError,
          cdn_link |-> cdn_link \o LanguageSuffix(language,
              "csharp-abs-webapp-v4_echobot_precompiled.zip",
              "node.js-abs-webapp-v4_echobot.zip"),
          template_name |-> v4_webapp_template_name]

\* lines 187-211: the link and the template for a root that was fetched
ResolveLink(text, version, language, kind) ==
  LET cdn_link == Strip(text, Quote) IN
  IF version = "v3" THEN V3Link(cdn_link, language, kind)
                    ELSE V4Link(cdn_link, language, kind)

retrieve_without_status_check(status_code, text, version, language, kind) ==
  ResolveLink(text, version, language, kind)

\* status_code and text are the response of the root lookup
retrieve_bot_template_link(status_code, text, version, language, kind) ==
  IF status_code # StatusOK
    THEN [err |-> "RemoteLookupError", cdn_link |-> <<>>, template_name |-> ""]
    ELSE ResolveLink(text, version, language, kind)

\* ------------------------------------------------------------ create_app
NormalizeKindUnchanged(kind) == kind

\* kind = 'sdk' if kind == 'webapp' else kind
NormalizeKind(kind) == IF kind = "webapp" THEN "sdk" ELSE kind

SiteChars == Range(LowerLetters) \cup Digits \cup {"-"}
StorageChars == Range(LowerLetters) \cup Digits

\* re.sub(r'[^a-z0-9\-]', '', resource_name[:40].lower())
SanitizeSiteName(resource_name) ==
  KeepOnly(Lower(Prefix(resource_name, SiteNameMax)), SiteChars)

StripTrailingDashOnce(site_name) ==
  IF site_name = <<>> THEN [err |-> "IndexError", v |-> site_name]
  ELSE IF site_name[Len(site_name)] = "-"
    THEN [err |-> NoError, v |-> SubSeq(site_name, 1, Len(site_name) - 1)]
    ELSE [err |-> NoError, v |-> site_name]

RECURSIVE StripTrailingDashes(_)
\* while site_name[-1] == '-': site_name = site_name[:-1]
\* indexing the empty string raises IndexError
StripTrailingDashes(site_name) ==
  IF site_name = <<>> THEN [err |-> "IndexError", v |-> site_name]
  ELSE IF site_name[Len(site_name)] = "-"
    THEN StripTrailingDashes(SubSeq(site_name, 1, Len(site_name) - 1))
    ELSE [err |-> NoError, v |-> site_name]

DeriveSiteName(resource_name) == StripTrailingDashes(SanitizeSiteName(resource_name))

DeriveStorageNameKeepsDash(resource_name) ==
  KeepOnly(Lower(Prefix(resource_name, StorageNameMax)), SiteChars)

\* re.sub(r'[^a-z0-9]', '', resource_name[:24].lower())
DeriveStorageName(resource_name) ==
  KeepOnly(Lower(Prefix(resource_name, StorageNameMax)), StorageChars)

\* location.lower().replace(' ', '')
NormalizeLocation(location) == RemoveChar(Lower(location), " ")

ServerFarmId(subscription_id, resource_group_name, resource_name) ==
  K("/subscriptions/") \o subscription_id \o K("/resourceGroups/") \o resource_group_name
  \o K("/providers/Microsoft.Web/serverfarms/") \o resource_name

BaseKeys ==
  { K("location"), K("kind"), K("sku"), K("siteName"), K("appId"), K("appSecret"),
    K("serverFarmId"), K("zipUrl"), K("botEnv"), K("createServerFarm"),
    K("serverFarmLocation"), K("azureWebJobsBotFrameworkDirectLineSecret"), K("botId") }

V3Keys ==
  { K("createNewStorage"), K("storageAccountResourceId"), K("storageAccountName"),
    K("useAppInsights"), K("appInsightsLocation") }

\* paramsdict = {...}
BaseParams(a, kind, zip_url, site_name) ==
  [k \in BaseKeys |->
    CASE k = K("location") -> a.location
      [] k = K("kind") -> PyStr(K(kind))
      [] k = K("sku") -> a.sku_name
      [] k = K("siteName") -> PyStr(site_name)
      [] k = K("appId") -> a.appid
      [] k = K("appSecret") -> a.password
      [] k = K("serverFarmId") ->
           PyStr(ServerFarmId(a.subscription_id, a.resource_group_name, a.resource_name))
      [] k = K("zipUrl") -> PyStr(zip_url)
      [] k = K("botEnv") -> PyStr(K("prod"))
      [] k = K("createServerFarm") -> PyBool(TRUE)
      [] k = K("serverFarmLocation") -> PyStr(NormalizeLocation(a.location.s))
      [] k = K("azureWebJobsBotFrameworkDirectLineSecret") -> PyStr(<<>>)
      [] k = K("botId") -> PyStr(a.resource_name)]

\* if description: paramsdict['description'] = description
DescriptionParams(a) ==
  IF Truthy(a.description) THEN [k \in {K("description")} |-> a.description] ELSE EmptyDict

\* lines 114-127: storage prep and application insights prep
V3Fields(a) ==
  LET derive == ~Truthy(a.storageAccountName) IN
  [k \in V3Keys |->
    CASE k = K("createNewStorage") -> PyBool(derive)
      [] k = K("storageAccountResourceId") -> PyStr(<<>>)
      [] k = K("storageAccountName") ->
           IF derive THEN PyStr(DeriveStorageName(a.resource_name)) ELSE a.storageAccountName
      [] k = K("useAppInsights") -> PyBool(TRUE)
      [] k = K("appInsightsLocation") -> PyStr(NormalizeLocation(a.appInsightsLocation.s))]

V3ParamsForEveryVersion(a) == V3Fields(a)

\* if version == 'v3':
V3Params(a) == IF a.version = "v3" THEN V3Fields(a) ELSE EmptyDict

BuildParamsdict(a, kind, zip_url, site_name) ==
  Update(Update(BaseParams(a, kind, zip_url, site_name), DescriptionParams(a)), V3Params(a))

WrapValuesTwice(paramsdict) ==
  [k \in DOMAIN paramsdict |->
    PyDict([x \in {K("value")} |-> PyDict([y \in {K("value")} |-> paramsdict[k]])])]

\* params = {k: {'value': v} for k, v in paramsdict.items()}
WrapValues(paramsdict) ==
  [k \in DOMAIN paramsdict |-> PyDict([x \in {K("value")} |-> paramsdict[k]])]

\* --------------------------------------------------- deploy_arm_template
\* the DeploymentProperties handed to deployments.create_or_update, or the
\* error raised before the call is made
deploy_arm_template(resource_group_name, template_file, deployment_name, parameters, mode) ==
  LET processed == process_parameters(parameters) IN
  IF processed.err # NoError THEN [err |-> processed.err, properties |-> EmptyDict]
  ELSE LET loaded == JsonLoads(JsonDumps(PyDict(processed.v))) IN
       [err |-> NoError,
        properties |-> [resource_group_name |-> resource_group_name,
                        deployment_name |-> deployment_name,
                        template_file |-> template_file,
                        parameters |-> loaded.v.o,
                        mode |-> mode]]

\* ----------------------------------------------------------------- inputs
NameChars == {"A", "1", "-", "_"}

RECURSIVE SeqsUpTo(_, _)
\* the sequences over S of length at most n
SeqsUpTo(S, n) ==
  IF n = 0 THEN {<<>>}
  ELSE LET shorter == SeqsUpTo(S, n - 1) IN
       shorter \cup {Append(q, x) : q \in {r \in shorter : Len(r) = n - 1}, x \in S}

\* a resource name is a run of "b" followed by a short tail; the runs put the
\* tail on either side of the two truncation points
Pads == {0, StorageNameMax - 1, SiteNameMax - 1}
Names == {Repeat("b", p) \o tl : p \in Pads, tl \in SeqsUpTo(NameChars, MaxTail)}

WestUS == <<"W", "e", "s", "t", " ", "U", "S">>

AppArgs ==
  [resource_group_name : {K("rg")},
   resource_name : Names,
   description : {PyNone, PyStr(K("my bot"))},
   kind : {"webapp", "function", "sdk"},
   appid : {PyStr(K("app-id"))},
   password : {PyStr(K("secret"))},
   storageAccountName : {PyNone, PyStr(<<>>), PyStr(<<"M", "y", "-", "s", "t", "o", "r", "e">>)},
   location : {PyStr(WestUS)},
   sku_name : {PyStr(K("F0"))},
   appInsightsLocation : {PyStr(WestUS)},
   language : {"Csharp", "Javascript"},
   version : {"v3", "v4"},
   subscription_id : {K("sub")}]

NoArgs == [resource_name |-> <<>>]

LinkArgs ==
  [version : {"v3", "v4"}, language : {"Csharp", "Javascript", "Python"},
   kind : {"function", "sdk", "bot"}]

NoLinkArgs == [version |-> "", language |-> "", kind |-> ""]
NoLink == [err |-> NoError, cdn_link |-> <<>>, template_name |-> ""]

Statuses == {StatusOK, 404}
RootTexts == { <<Quote, "https://cdn/", Quote>>, <<"https://cdn/">> }

Num(n) == Atom(PyNum(n))
Key(lit) == Atom(PyStr(K(lit)))

\* {"parameters":{"a":1}}, {"a":2,"b":3}, not json, 5, {"parameters":7}, {"b":4
RawStrings ==
  { <<LBrace, Key("parameters"), Colon, LBrace, Key("a"), Colon, Num(1), RBrace, RBrace>>,
    <<LBrace, Key("a"), Colon, Num(2), Comma, Key("b"), Colon, Num(3), RBrace>>,
    <<Word, Word>>,
    <<Num(5)>>,
    <<LBrace, Key("parameters"), Colon, Num(7), RBrace>>,
    <<LBrace, Key("b"), Colon, Num(4)>> }

RECURSIVE Splits(_)
\* the ways to cut a list of items into consecutive non-empty lists
Splits(items) ==
  IF items = <<>> THEN {<<>>}
  ELSE UNION { { <<SubSeq(items, 1, n)>> \o rest : rest \in Splits(SubSeq(items, n + 1, Len(items))) }
               : n \in 1..Len(items) }

ParameterLists == UNION { Splits(items) : items \in SeqsUpTo(RawStrings, MaxItems) }

\* ------------------------------------------------------------------ state
VARIABLES op, pc, args, kind, status_code, link_args, link, site_name, paramsdict,
          params, submitted, error, calls, parameter_lists, merged

vars == <<op, pc, args, kind, status_code, link_args, link, site_name, paramsdict,
          params, submitted, error, calls, parameter_lists, merged>>

NoMerge == [err |-> NoError, v |-> EmptyDict]

Init ==
  /\ op \in {"create_app", "retrieve_bot_template_link", "process_parameters"}
  /\ pc = "call"
  /\ IF op = "create_app" THEN args \in AppArgs ELSE args = NoArgs
  /\ IF op = "retrieve_bot_template_link" THEN link_args \in LinkArgs ELSE link_args = NoLinkArgs
  /\ IF op = "process_parameters" THEN parameter_lists \in ParameterLists
                                  ELSE parameter_lists = <<>>
  /\ kind = ""
  /\ status_code = 0
  /\ link = NoLink
  /\ site_name = <<>>
  /\ paramsdict = EmptyDict
  /\ params = EmptyDict
  /\ submitted = EmptyDict
  /\ error = NoError
  /\ calls = <<>>
  /\ merged = NoMerge

\* __retrieve_bot_template_link called on its own
RetrieveBotTemplateLink ==
  /\ op = "retrieve_bot_template_link" /\ pc = "call"
  /\ \E sc \in Statuses, text \in RootTexts :
       /\ status_code' = sc
       /\ link' = retrieve_bot_template_link(sc, text, link_args.version,
                                             link_args.language, link_args.kind)
  /\ pc' = "done"
  /\ UNCHANGED <<op, args, kind, link_args, site_name, paramsdict, params, submitted,
                 error, calls, parameter_lists, merged>>

\* __process_parameters called on its own
ProcessParameters ==
  /\ op = "process_parameters" /\ pc = "call"
  /\ merged' = process_parameters(parameter_lists)
  /\ pc' = "done"
  /\ UNCHANGED <<op, args, kind, status_code, link_args, link, site_name, paramsdict,
                 params, submitted, error, calls, parameter_lists>>

\* create_app, lines 78-79: normalise the kind and resolve the template
CreateAppResolve ==
  /\ op = "create_app" /\ pc = "call"
  /\ kind' = NormalizeKind(args.kind)
  /\ link_args' = [version |-> args.version, language |-> args.language, kind |-> kind']
  /\ calls' = Append(calls, "resolver")
  /\ \E sc \in Statuses, text \in RootTexts :
       /\ status_code' = sc
       /\ link' = retrieve_bot_template_link(sc, text, args.version, args.language, kind')
  /\ error' = link'.err
  /\ pc' = IF link'.err # NoError THEN "done" ELSE "site_name"
  /\ UNCHANGED <<op, args, site_name, paramsdict, params, submitted, parameter_lists, merged>>

\* create_app, lines 84-90: derive the site name
CreateAppSiteName ==
  /\ op = "create_app" /\ pc = "site_name"
  /\ calls' = Append(calls, "site_name")
  /\ LET derived == DeriveSiteName(args.resource_name) IN
       /\ site_name' = derived.v
       /\ error' = derived.err
       /\ pc' = IF derived.err # NoError THEN "done" ELSE "params"
  /\ UNCHANGED <<op, args, kind, status_code, link_args, link, paramsdict, params,
                 submitted, parameter_lists, merged>>

\* create_app, lines 93-130: build and wrap the parameters
CreateAppParams ==
  /\ op = "create_app" /\ pc = "params"
  /\ paramsdict' = BuildParamsdict(args, kind, link.cdn_link, site_name)
  /\ params' = WrapValues(paramsdict')
  /\ pc' = "deploy"
  /\ UNCHANGED <<op, args, kind, status_code, link_args, link, site_name, submitted,
                 error, calls, parameter_lists, merged>>

\* create_app, lines 136-143: deploy_arm_template and the blocking wait for
\* the deployment, which succeeds or fails
CreateAppDeploy ==
  /\ op = "create_app" /\ pc = "deploy"
  /\ LET d == deploy_arm_template(args.resource_group_name, link.template_name,
                                  args.resource_name, << <<JsonDumps(PyDict(params))>> >>,
                                  "Incremental") IN
       IF d.err # NoError
         THEN /\ error' = d.err
              /\ pc' = "done"
              /\ UNCHANGED <<submitted, calls>>
         ELSE /\ submitted' = d.properties
              /\ calls' = Append(calls, "deploy")
              /\ \E outcome \in {"Succeeded", "Failed"} :
                   /\ error' = IF outcome = "Failed" THEN "DeploymentFailure" ELSE NoError
                   /\ pc' = IF outcome = "Failed" THEN "done" ELSE "format"
  /\ UNCHANGED <<op, args, kind, status_code, link_args, link, site_name, paramsdict,
                 params, parameter_lists, merged>>

\* create_app, lines 148-149: BotJsonFormatter.create_bot_json
CreateAppFormat ==
  /\ op = "create_app" /\ pc = "format"
  /\ calls' = Append(calls, "format")
  /\ pc' = "done"
  /\ UNCHANGED <<op, args, kind, status_code, link_args, link, site_name, paramsdict,
                 params, submitted, error, parameter_lists, merged>>

Next ==
  \/ RetrieveBotTemplateLink
  \/ ProcessParameters
  \/ CreateAppResolve
  \/ CreateAppSiteName
  \/ CreateAppParams
  \/ CreateAppDeploy
  \/ CreateAppFormat

Spec == Init /\ [][Next]_vars

\* ---------------------------------------------------------------- claims
IsPrefix(s, t) == Len(s) <= Len(t) /\ s = SubSeq(t, 1, Len(s))

Called(step) == step \in Range(calls)

\* the resolver has returned or raised, called on its own or by create_app
ResolverDone ==
  \/ op = "retrieve_bot_template_link" /\ pc = "done"
  \/ op = "create_app" /\ Called("resolver")

V4Function == link_args.version # "v3" /\ link_args.kind = "function"

\* the table of section 4.1
TableTemplate(version, k) ==
  IF version = "v3" /\ k = "function" THEN function_template_name
  ELSE IF version = "v3" THEN v3_webapp_template_name
  ELSE v4_webapp_template_name

\* C1: after a successful (status 200) root lookup, and except for v4 with
\* kind function, the resolver returns without error and its template file
\* is the one the version/kind table gives.
C1_TemplateTable ==
  (ResolverDone /\ status_code = StatusOK /\ ~V4Function)
    => /\ link.err = NoError
       /\ link.template_name = TableTemplate(link_args.version, link_args.kind)

C1_Witness ==
  /\ op = "retrieve_bot_template_link" /\ pc = "done" /\ status_code = StatusOK
  /\ link_args = [version |-> "v3", language |-> "Python", kind |-> "bot"]
  /\ link.err = NoError
  /\ link.template_name = v3_webapp_template_name
  /\ link.cdn_link = <<"https://cdn/">>

\* C2 as stated: a resolver call with a version other than v3 and kind
\* function always fails with UnsupportedConfiguration.
C2_AlwaysUnsupported ==
  (ResolverDone /\ V4Function) => link.err = "UnsupportedConfiguration"

\* C2 as amended: such a call never returns a pair; it fails with
\* UnsupportedConfiguration when the root lookup returned status 200 and
\* with RemoteLookupError when it did not.
C2_UnsupportedAfterLookup ==
  (ResolverDone /\ V4Function)
    => /\ link.err # NoError
       /\ link.err = IF status_code = StatusOK THEN "UnsupportedConfiguration"
                                               ELSE "RemoteLookupError"

C2_Witness ==
  /\ op = "retrieve_bot_template_link" /\ pc = "done" /\ status_code = StatusOK
  /\ link_args.version = "v4" /\ link_args.kind = "function"
  /\ link_args.language = "Javascript"
  /\ link.err = "UnsupportedConfiguration"

\* the sanitised 40-character prefix holds nothing but '-'
StripsToEmpty(resource_name) == RStrip(SanitizeSiteName(resource_name), "-") = <<>>

\* C3: when create_app derives the site name of a resource name that strips
\* to the empty string, it ends with a ValidationError and submits no
\* deployment.
C3_EmptySiteNameIsValidationError ==
  (op = "create_app" /\ Called("site_name") /\ StripsToEmpty(args.resource_name))
    => /\ pc = "done"
       /\ error = "ValidationError"
       /\ ~Called("deploy")

\* C4: site name derivation is idempotent: deriving the site name of a
\* derived site name gives that site name again.
C4_SiteNameIdempotent ==
  (op = "create_app" /\ Called("site_name") /\ error # "IndexError")
    => DeriveSiteName(site_name) = [err |-> NoError, v |-> site_name]

C4_Witness ==
  /\ op = "create_app" /\ pc = "params"
  /\ args.resource_name = Repeat("b", SiteNameMax - 1) \o <<"-", "A">>
  /\ site_name = Repeat("b", SiteNameMax - 1)

ParamsBuilt == op = "create_app" /\ pc \in {"deploy", "format", "done"} /\ Called("site_name")
               /\ error # "IndexError"

C5Keys ==
  { K("createNewStorage"), K("storageAccountResourceId"), K("storageAccountName"),
    K("useAppInsights"), K("appInsightsLocation") }

\* C5: the parameter map create_app builds holds all five v3 keys when the
\* version is v3 and none of them when it is v4.
C5_V3KeysExactlyForV3 ==
  ParamsBuilt
    => /\ args.version = "v3" => C5Keys \subseteq DOMAIN params
       /\ args.version = "v4" => C5Keys \cap DOMAIN params = {}

C5_Witness ==
  /\ ParamsBuilt /\ args.version = "v4"
  /\ args.storageAccountName # PyNone /\ args.description # PyNone
  /\ K("description") \in DOMAIN params
  /\ C5Keys \cap DOMAIN params = {}

\* what the spec has one raw string contribute
Contribution(raw) ==
  LET parsed == shell_safe_json_parse(raw) IN
  IF ~parsed.ok \/ parsed.v.t # "obj" THEN EmptyDict
  ELSE IF K("parameters") \notin DOMAIN parsed.v.o THEN parsed.v.o
  ELSE IF parsed.v.o[K("parameters")].t = "obj" THEN parsed.v.o[K("parameters")].o
  ELSE EmptyDict

RECURSIVE MergeInOrder(_, _)
MergeInOrder(items, acc) ==
  IF items = <<>> THEN acc
  ELSE MergeInOrder(Tail(items), Update(acc, Contribution(Head(items))))

\* C6: __process_parameters over any list of lists of raw strings raises no
\* error and returns the map obtained by merging, in order, what each string
\* contributes, the later string winning on a key collision.
C6_MergeInOrderNeverFails ==
  (op = "process_parameters" /\ pc = "done")
    => /\ merged.err = NoError
       /\ merged.v = MergeInOrder(Flatten(parameter_lists), EmptyDict)

Scalar(v) == v.t \in {"str", "bool", "null", "num"}

Wrapped(entry, raw) ==
  /\ entry.t = "obj"
  /\ DOMAIN entry.o = {K("value")}
  /\ entry.o[K("value")] = raw
  /\ Scalar(raw)

\* C7: every entry of the map create_app builds, and of the map handed to the
\* deployment API, is key -> {"value": raw} with raw the unwrapped value
\* assembled for that key.
C7_EveryValueWrappedOnce ==
  /\ ParamsBuilt
       => /\ DOMAIN params = DOMAIN paramsdict
          /\ \A k \in DOMAIN params : Wrapped(params[k], paramsdict[k])
  /\ (op = "create_app" /\ Called("deploy"))
       => /\ DOMAIN submitted.parameters = DOMAIN paramsdict
          /\ \A k \in DOMAIN paramsdict : Wrapped(submitted.parameters[k], paramsdict[k])

C7_Witness ==
  /\ op = "create_app" /\ Called("deploy") /\ args.version = "v3"
  /\ submitted.parameters[K("createNewStorage")] = PyDict([x \in {K("value")} |-> PyBool(TRUE)])
  /\ submitted.parameters[K("siteName")] = PyDict([x \in {K("value")} |-> PyStr(<<"a", "1">>)])

Count(step) == Cardinality({i \in 1..Len(calls) : calls[i] = step})

\* C8: create_app issues the root lookup at most once, and a resolver failure
\* (a non-success status, or v4 with kind function) ends the run with that
\* error before any deployment submission or formatter call.
C8_ResolverFailureIsTerminal ==
  op = "create_app"
    => /\ Count("resolver") <= 1
       /\ (Called("resolver") /\ status_code # StatusOK)
            => pc = "done" /\ error = "RemoteLookupError" /\ calls = <<"resolver">>
       /\ (Called("resolver") /\ status_code = StatusOK
             /\ args.version # "v3" /\ args.kind = "function")
            => pc = "done" /\ error = "UnsupportedConfiguration" /\ calls = <<"resolver">>

C8_Witness ==
  /\ op = "create_app" /\ pc = "done" /\ status_code = 404
  /\ error = "RemoteLookupError" /\ calls = <<"resolver">>
  /\ args.version = "v3" /\ args.kind = "webapp"

\* C9 as stated: the site name is derived first, then the resolver is
\* invoked, then the deployment is submitted, then the formatter runs.
C9_SiteNameBeforeResolver ==
  op = "create_app" => IsPrefix(calls, <<"site_name", "resolver", "deploy", "format">>)

\* C9 as amended: the resolver is invoked first, with the normalised kind,
\* then the site name is derived, then exactly one deployment is submitted
\* with the resolved template file and the built parameters, and the
\* formatter runs only after that submission succeeded; no step is reached
\* after an earlier one failed.
C9_ResolverFirstOrder ==
  op = "create_app"
    => /\ IsPrefix(calls, <<"resolver", "site_name", "deploy", "format">>)
       /\ Called("resolver")
            => link_args.kind = (IF args.kind = "webapp" THEN "sdk" ELSE args.kind)
       /\ error # NoError => pc = "done" /\ ~Called("format")
       /\ Called("deploy")
            => /\ submitted.template_file = link.template_name
               /\ submitted.parameters = params
               /\ submitted.deployment_name = args.resource_name
       /\ (pc = "done" /\ error = NoError)
            => calls = <<"resolver", "site_name", "deploy", "format">>

C9_Witness ==
  /\ op = "create_app" /\ pc = "done" /\ error = NoError
  /\ args.kind = "webapp" /\ link_args.kind = "sdk"
  /\ calls = <<"resolver", "site_name", "deploy", "format">>

\* C10: for v3, createNewStorage is true exactly when no storage account name
\* was supplied; the name is then the lowercased first 24 characters of the
\* resource name without the characters outside [a-z0-9], and otherwise the
\* supplied name; storageAccountResourceId is "" either way.
C10_StorageParameters ==
  (ParamsBuilt /\ args.version = "v3")
    => LET supplied == args.storageAccountName.t = "str" /\ args.storageAccountName.s # <<>>
           first24 == SubSeq(args.resource_name, 1, Min(Len(args.resource_name), 24))
           expected == SelectSeq(Lower(first24),
                                 LAMBDA c : c \in Range(LowerLetters) \cup Digits)
       IN /\ paramsdict[K("createNewStorage")] = PyBool(~supplied)
          /\ paramsdict[K("storageAccountName")] =
               IF supplied THEN args.storageAccountName ELSE PyStr(expected)
          /\ paramsdict[K("storageAccountResourceId")] = PyStr(<<>>)

C10_Witness ==
  /\ ParamsBuilt /\ args.version = "v3" /\ args.storageAccountName = PyStr(<<>>)
  /\ args.resource_name = Repeat("b", StorageNameMax - 1) \o <<"-", "A">>
  /\ paramsdict[K("storageAccountName")] = PyStr(Repeat("b", StorageNameMax - 1))
  /\ paramsdict[K("createNewStorage")] = PyBool(TRUE)

====
